---- MODULE Spec2Model ----
(***************************************************************************)
(* Paper Mate Pro (src/app.py): a Streamlit chat application.  Every       *)
(* browser tab is one UI flow with its own st.session_state; all flows     *)
(* share one SQLite database (sessions, messages).  A flow runs the script *)
(* top to bottom on every event; a chat submission runs the turn handler   *)
(* (save user message, translate, search, generate, save reply, title).    *)
(* Each database function opens, commits and closes its own connection, so *)
(* the steps of one flow interleave with those of the others between any   *)
(* two database calls.                                                     *)
(***************************************************************************)
EXTENDS Integers, Sequences, FiniteSets, TLC

\* ---- bounds of the model ------------------------------------------------
NumFlows == 2
MaxSessions == 2
MaxMsgs == 3
MaxClock == 1
MaxTurnPool == 1
MaxPool == 4
MaxDate == 3
MaxResults == 2
TicksPerMinute == 2
DatesPerYear == 2

\* ---- program constants --------------------------------------------------
OverFetch == 4
DefaultMaxResults == 3

Flows == 1..NumFlows
Uuids == 1..MaxSessions

\* The literals of src/app.py, transliterated.
DefaultTitle == "new chat"               \* "새로운 대화"
UnknownTitle == "unknown"                \* "알 수 없음"
NoResultsReply == "no search results"    \* "검색 결과가 없습니다."
SystemPrompt == "paper search helper"    \* "논문 검색 도우미입니다."
NoSession == 0                           \* current_session_id = None

Prompts == {"q"}
NewNames == {"t"}
\* What the completion capability may answer (raw, before strip()).
KeywordCompletions == {" kw "}
TitleCompletions == {" auto "}
ReplyCompletions == {"reply"}

\* str.strip() on the texts of the model.
strip(text) ==
    CASE text = " kw " -> "kw"
      [] text = " auto " -> "auto"
      [] OTHER -> text

VARIABLES
    sessions,            \* relation sessions(id, title, created_at)
    messages,            \* relation messages(id, session_id, role, content, created_at)
    seq,                 \* sqlite_sequence of messages (AUTOINCREMENT)
    uuids,               \* number of uuid4 values drawn so far
    txn,                 \* the open transaction of a delete_session call in progress
    now,                 \* wall clock
    current_session_id,  \* st.session_state.current_session_id, per flow
    pc,                  \* position of each flow's script run
    prompt,              \* chat input of the running turn
    current_messages,    \* line 261
    is_first_message,    \* line 262
    english_query,       \* line 279
    degraded,            \* history: the translation took the except branch (line 134)
    search_context,      \* line 282
    paper_count,         \* line 282
    messages_for_api,    \* line 304-306, the request sent to the completion
    assistant_reply,     \* line 285 / 312
    auto_title,          \* line 320
    error,               \* the except branch of line 324 was taken
    calls,               \* history: calls made by the running turn, in order
    inserted,            \* history: ids of the message rows the turn inserted
    manual,              \* history: title another flow saved during the first turn
    titleCalls,          \* history: generate_auto_title invocations per live session
    appended,            \* history: save_message calls per live session, in call order
    max_results,         \* search_arxiv under test: argument
    pool,                \* search_arxiv under test: what client.results yielded
    raised,              \* search_arxiv under test: the external search raised
    returned,            \* search_arxiv under test: return value
    attempts             \* search_arxiv under test: calls of client.results

turnVars == <<prompt, current_messages, is_first_message, english_query, degraded,
              search_context, paper_count, messages_for_api, assistant_reply,
              auto_title, error, calls, inserted, manual>>
storeVars == <<sessions, messages, seq, uuids, txn, appended>>
searchVars == <<max_results, pool, raised, returned, attempts>>
vars == <<sessions, messages, seq, uuids, txn, now, current_session_id, pc, prompt,
          current_messages, is_first_message, english_query, degraded,
          search_context, paper_count, messages_for_api, assistant_reply, auto_title, error,
          calls, inserted, manual, titleCalls, appended, max_results, pool,
          raised, returned, attempts>>

\* ---- persistence store --------------------------------------------------
SessionIds == {s.id : s \in sessions}
SessionRow(session_id) == CHOOSE s \in sessions : s.id = session_id

\* strftime("%Y-%m-%d %H:%M"): the clock cut to the minute.
Minute(t) == t \div TicksPerMinute

\* create_session: the sessions relation after the INSERT.
create_session(title) ==
    sessions \cup {[id |-> uuids + 1, title |-> title, created_at |-> Minute(now)]}

\* update_session_title: UPDATE ... WHERE id = ? (no row, no change).
update_session_title(session_id, new_title) ==
    {IF s.id = session_id THEN [s EXCEPT !.title = new_title] ELSE s : s \in sessions}

\* faulty variant: the DELETE on messages is missing
delete_session_messages_kept(session_id) == messages

\* delete_session: both DELETEs, committed together.
delete_session_messages(session_id) == {m \in messages : m.session_id # session_id}
delete_session_sessions(session_id) == {s \in sessions : s.id # session_id}

\* get_session_info: the row, or the fallback pair when there is none.
NoDate == -1                             \* the "" of the fallback pair
NotFound == <<UnknownTitle, NoDate>>
get_session_info(session_id) ==
    IF session_id \in SessionIds
    THEN <<SessionRow(session_id).title, SessionRow(session_id).created_at>>
    ELSE NotFound

\* faulty variant: the INSERT is never committed
save_message_lost(session_id, role, content) == messages

\* save_message: the messages relation after the INSERT.  The connection
\* never turns foreign-key enforcement on, so the row goes in whatever the
\* session id is.
save_message(session_id, role, content) ==
    messages \cup {[id |-> seq + 1, session_id |-> session_id, role |-> role,
                    content |-> content, created_at |-> now]}

RECURSIVE OrderByIdAsc(_)
OrderByIdAsc(rows) ==
    IF rows = {} THEN <<>>
    ELSE LET m == CHOOSE r \in rows : \A o \in rows : r.id <= o.id
         IN <<m>> \o OrderByIdAsc(rows \ {m})

RECURSIVE OrderByCreatedAt(_)
OrderByCreatedAt(rows) ==
    IF rows = {} THEN <<>>
    ELSE LET m == CHOOSE r \in rows : \A o \in rows :
                     \/ r.created_at < o.created_at
                     \/ r.created_at = o.created_at /\ r.id >= o.id
         IN <<m>> \o OrderByCreatedAt(rows \ {m})

\* faulty variant: ORDER BY created_at: rows of one second come in any order,
\* here the later one first
get_message_rows_by_time(session_id) ==
    OrderByCreatedAt({m \in messages : m.session_id = session_id})

\* get_messages: SELECT role, content ... WHERE session_id = ? ORDER BY id ASC
get_message_rows(session_id) ==
    OrderByIdAsc({m \in messages : m.session_id = session_id})
get_messages(session_id) ==
    LET rows == get_message_rows(session_id)
    IN [i \in 1..Len(rows) |-> [role |-> rows[i].role, content |-> rows[i].content]]

\* get_all_sessions: SELECT ... FROM sessions ORDER BY created_at DESC.  The
\* query orders by the stored minute only and SQL leaves the order of equal
\* keys open, so the call may return any of these lists.
get_all_sessions ==
    {l \in [1..Cardinality(sessions) -> sessions] :
        /\ \A i, j \in 1..Cardinality(sessions) : i # j => l[i] # l[j]
        /\ \A i, j \in 1..Cardinality(sessions) :
              i < j => l[i].created_at >= l[j].created_at}

\* all_sessions[0] (line 257): some row with the greatest created_at
MostRecent == {s \in sessions : \A o \in sessions : o.created_at <= s.created_at}

\* ---- search_history -------------------------------------------------------
\* what may be typed into the sidebar's search box
Keywords == {"q", "Q", "_", "x"}

Char(text, i) == SubSeq(text, i, i)
Rest(text) == SubSeq(text, 2, Len(text))
\* LIKE folds the case of ASCII letters
Lower(c) == IF c = "Q" THEN "q" ELSE c

\* SQLite's LIKE: % stands for any run of characters, _ for any one
RECURSIVE Like(_, _)
Like(pattern, text) ==
    IF Len(pattern) = 0 THEN Len(text) = 0
    ELSE IF pattern = "%" THEN TRUE
    ELSE IF Char(pattern, 1) = "%"
         THEN \E k \in 0..Len(text) :
                 Like(Rest(pattern), SubSeq(text, k + 1, Len(text)))
    ELSE /\ Len(text) > 0
         /\ Char(pattern, 1) = "_" \/ Lower(Char(pattern, 1)) = Lower(Char(text, 1))
         /\ Like(Rest(pattern), Rest(text))

\* lines 111-118: a row of messages JOIN sessions WHERE m.content LIKE '%keyword%'
Hit(m, keyword) ==
    m.session_id \in SessionIds /\ Like("%" \o keyword \o "%", m.content)
Matches(keyword) == {m \in messages : Hit(m, keyword)}

\* SELECT s.id, s.title, m.content
HistoryRow(m) == <<m.session_id, SessionRow(m.session_id).title, m.content>>

\* search_history: the DISTINCT rows, ORDER BY m.created_at DESC.  Which of
\* several equal rows gives its created_at, and the order of equal keys, are
\* left open by SQL, so the call may return any of these lists.
search_history(keyword) ==
    LET hits == Matches(keyword)
        rows == {HistoryRow(m) : m \in hits}
        n == Cardinality(rows)
    IN {l \in [1..n -> rows] :
           /\ \A i, j \in 1..n : i # j => l[i] # l[j]
           /\ \E rep \in [1..n -> hits] :
                 /\ \A i \in 1..n : HistoryRow(rep[i]) = l[i]
                 /\ \A i, j \in 1..n :
                       i < j => rep[i].created_at >= rep[j].created_at}

\* ---- paper search adapter ------------------------------------------------
Dates == 1..MaxDate
Pools == UNION {[1..k -> Dates] : k \in 0..MaxPool}
\* the external search honours the requested limit
ArxivResults(limit) == {p \in Pools : Len(p) <= limit}

None == [none |-> TRUE, blocks |-> <<>>]
Text(blocks) == [none |-> FALSE, blocks |-> blocks]
\* Python truthiness of None / str
Truthy(text) == ~text.none /\ text.blocks # <<>>

\* strftime("%Y")
Year(date) == (date + DatesPerYear - 1) \div DatesPerYear

\* list.sort(key=published, reverse=True): stable, descending.  A result is
\* the index of the entry in the pool.
RECURSIVE SortDesc(_, _)
SortDesc(p, idx) ==
    IF idx = <<>> THEN <<>>
    ELSE LET best == CHOOSE i \in 1..Len(idx) :
                        /\ \A j \in 1..Len(idx) : p[idx[j]] <= p[idx[i]]
                        /\ \A j \in 1..(i - 1) : p[idx[j]] < p[idx[i]]
         IN <<idx[best]>> \o
            SortDesc(p, [j \in 1..(Len(idx) - 1) |->
                            IF j < best THEN idx[j] ELSE idx[j + 1]])

Slice(s, n) == [i \in 1..(IF Len(s) < n THEN Len(s) ELSE n) |-> s[i]]

\* faulty variant: the sort is missing
sorted_results_unsorted(p, n) == Slice([i \in 1..Len(p) |-> i], n)

\* lines 163-164
sorted_results(p, n) == Slice(SortDesc(p, [i \in 1..Len(p) |-> i]), n)

\* lines 171-178
paper_data(p, i) == [entry_id |-> i, published_year |-> Year(p[i])]

\* search_arxiv given what client.results yielded
search_arxiv(p, n) ==
    IF Len(p) = 0 THEN <<None, 0>>
    ELSE LET results == sorted_results(p, n)
         IN <<Text([i \in 1..Len(results) |-> paper_data(p, results[i])]),
              Len(results)>>

\* ---- initial state -------------------------------------------------------
NoReply == ""
NoRequest == <<>>

\* search_arxiv has not returned yet
NotReturned == <<None, -1>>
\* search_arxiv let the exception of the external search out
Propagated == <<None, -2>>

\* no delete_session call is between its first statement and its commit
NoTxn == [session_id |-> NoSession, statements |-> 0]

FlowsInit ==
    /\ sessions = {}
    /\ messages = {}
    /\ seq = 0
    /\ uuids = 0
    /\ txn = NoTxn
    /\ now = 0
    /\ current_session_id = [f \in Flows |-> NoSession]
    /\ pc = [f \in Flows |-> "select"]
    /\ prompt = [f \in Flows |-> ""]
    /\ current_messages = [f \in Flows |-> <<>>]
    /\ is_first_message = [f \in Flows |-> FALSE]
    /\ english_query = [f \in Flows |-> ""]
    /\ degraded = [f \in Flows |-> FALSE]
    /\ search_context = [f \in Flows |-> None]
    /\ paper_count = [f \in Flows |-> 0]
    /\ messages_for_api = [f \in Flows |-> NoRequest]
    /\ assistant_reply = [f \in Flows |-> NoReply]
    /\ auto_title = [f \in Flows |-> ""]
    /\ error = [f \in Flows |-> FALSE]
    /\ calls = [f \in Flows |-> <<>>]
    /\ inserted = [f \in Flows |-> <<>>]
    /\ manual = [f \in Flows |-> ""]
    /\ titleCalls = [s \in Uuids |-> 0]
    /\ appended = [s \in Uuids |-> <<>>]

Init ==
    /\ FlowsInit
    /\ max_results = 0
    /\ pool = <<>>
    /\ raised = FALSE
    /\ returned = NotReturned
    /\ attempts = 0

\* ---- the wall clock ------------------------------------------------------
Tick ==
    /\ now < MaxClock
    /\ now' = now + 1
    /\ UNCHANGED <<storeVars, current_session_id, pc, turnVars, titleCalls, searchVars>>

\* ---- sidebar handlers (one script run each) ------------------------------
InTurn(f) == pc[f] \in {"save_user", "translate", "search", "generate",
                        "save_assistant", "title", "update_title"}

\* lines 198-201: the new-chat button
NewChat(f) ==
    /\ pc[f] = "idle"
    /\ uuids < MaxSessions
    /\ sessions' = create_session(DefaultTitle)
    /\ uuids' = uuids + 1
    /\ current_session_id' = [current_session_id EXCEPT ![f] = uuids + 1]
    /\ UNCHANGED <<messages, seq, txn, appended, now, pc, turnVars, titleCalls, searchVars>>

\* lines 236-238: the save button of a listed session
Rename(f, s, new_name) ==
    /\ pc[f] = "idle"
    /\ s \in SessionIds
    /\ sessions' = update_session_title(s, new_name)
    /\ manual' = [g \in Flows |->
                    IF g # f /\ InTurn(g) /\ is_first_message[g]
                       /\ current_session_id[g] = s
                    THEN new_name ELSE manual[g]]
    /\ UNCHANGED <<messages, seq, uuids, txn, appended, now, current_session_id, pc,
                   prompt, current_messages, is_first_message, english_query, degraded,
                   search_context, paper_count, messages_for_api,
                   assistant_reply, auto_title, error, calls, inserted,
                   titleCalls, searchVars>>

\* lines 242-244: the open button of a listed session
Open(f, s) ==
    /\ pc[f] = "idle"
    /\ s \in SessionIds
    /\ current_session_id[f] # s
    /\ current_session_id' = [current_session_id EXCEPT ![f] = s]
    /\ UNCHANGED <<storeVars, now, pc, turnVars, titleCalls, searchVars>>

\* lines 206-220: a keyword in the search box and a click on one result
SearchOpen(f, keyword, s) ==
    /\ pc[f] = "idle"
    /\ current_session_id[f] # s
    /\ \E m \in messages : m.session_id = s /\ Hit(m, keyword)
    /\ current_session_id' = [current_session_id EXCEPT ![f] = s]
    /\ UNCHANGED <<storeVars, now, pc, turnVars, titleCalls, searchVars>>

\* lines 246-250: the delete button of a listed session
Delete(f, s) ==
    /\ pc[f] = "idle"
    /\ s \in SessionIds
    /\ messages' = delete_session_messages(s)
    /\ sessions' = delete_session_sessions(s)
    /\ appended' = [appended EXCEPT ![s] = <<>>]
    /\ titleCalls' = [titleCalls EXCEPT ![s] = 0]
    /\ current_session_id' =
          [current_session_id EXCEPT
              ![f] = IF current_session_id[f] = s THEN NoSession ELSE @]
    /\ pc' = [pc EXCEPT ![f] = IF current_session_id[f] = s THEN "select" ELSE "idle"]
    /\ UNCHANGED <<seq, uuids, txn, now, turnVars, searchVars>>

\* lines 190-191: the page is loaded anew (a reload, a new browser session);
\* st.session_state starts empty
Reload(f) ==
    /\ pc[f] = "idle"
    /\ current_session_id' = [current_session_id EXCEPT ![f] = NoSession]
    /\ pc' = [pc EXCEPT ![f] = "select"]
    /\ UNCHANGED <<storeVars, now, turnVars, titleCalls, searchVars>>

\* ---- main flow: session selection ----------------------------------------
\* lines 254-257
Select(f) ==
    /\ pc[f] = "select"
    /\ IF sessions # {}
       THEN /\ \E s \in MostRecent :
                 current_session_id' = [current_session_id EXCEPT ![f] = s.id]
            /\ pc' = [pc EXCEPT ![f] = "idle"]
       ELSE /\ pc' = [pc EXCEPT ![f] = "create"]
            /\ UNCHANGED current_session_id
    /\ UNCHANGED <<storeVars, now, turnVars, titleCalls, searchVars>>

\* line 259
Create(f) ==
    /\ pc[f] = "create"
    /\ uuids < MaxSessions
    /\ sessions' = create_session(DefaultTitle)
    /\ uuids' = uuids + 1
    /\ current_session_id' = [current_session_id EXCEPT ![f] = uuids + 1]
    /\ pc' = [pc EXCEPT ![f] = "idle"]
    /\ UNCHANGED <<messages, seq, txn, appended, now, turnVars, titleCalls, searchVars>>

\* ---- main flow: the turn handler -----------------------------------------
\* lines 261-272: the run of a chat submission reads the history first
\* faulty variant: the gate also lets the second message through
is_first_or_second(msgs) == Len(msgs) <= 1

is_first(msgs) == Len(msgs) = 0

Submit(f, p) ==
    /\ pc[f] = "idle"
    /\ seq < MaxMsgs
    /\ prompt' = [prompt EXCEPT ![f] = p]
    /\ current_messages' =
          [current_messages EXCEPT ![f] = get_messages(current_session_id[f])]
    /\ is_first_message' =
          [is_first_message EXCEPT ![f] = is_first(get_messages(current_session_id[f]))]
    /\ pc' = [pc EXCEPT ![f] = "save_user"]
    /\ UNCHANGED <<storeVars, now, current_session_id, english_query, degraded,
                   search_context, paper_count, messages_for_api,
                   assistant_reply, auto_title, error, calls, inserted, manual,
                   titleCalls, searchVars>>

\* faulty variant: the composed prompt is stored as the user message
SaveUser_composed(f) ==
    /\ pc[f] = "save_user"
    /\ seq < MaxMsgs
    /\ messages' = save_message(current_session_id[f], "user",
                                "question: '" \o prompt[f] \o "' papers found (0): <<>>")
    /\ seq' = seq + 1
    /\ appended' = [appended EXCEPT ![current_session_id[f]] =
                       Append(@, [role |-> "user", content |-> prompt[f]])]
    /\ inserted' = [inserted EXCEPT ![f] = Append(@, seq + 1)]
    /\ calls' = [calls EXCEPT ![f] = Append(@, "save_user")]
    /\ pc' = [pc EXCEPT ![f] = "translate"]
    /\ UNCHANGED <<sessions, uuids, txn, now, current_session_id, prompt,
                   current_messages, is_first_message, english_query, degraded,
                   search_context, paper_count, messages_for_api,
                   assistant_reply, auto_title, error, manual, titleCalls,
                   searchVars>>

\* lines 274-275
SaveUser(f) ==
    /\ pc[f] = "save_user"
    /\ seq < MaxMsgs
    /\ messages' = save_message(current_session_id[f], "user", prompt[f])
    /\ seq' = seq + 1
    /\ appended' = [appended EXCEPT ![current_session_id[f]] =
                       Append(@, [role |-> "user", content |-> prompt[f]])]
    /\ inserted' = [inserted EXCEPT ![f] = Append(@, seq + 1)]
    /\ calls' = [calls EXCEPT ![f] = Append(@, "save_user")]
    /\ pc' = [pc EXCEPT ![f] = "translate"]
    /\ UNCHANGED <<sessions, uuids, txn, now, current_session_id, prompt,
                   current_messages, is_first_message, english_query, degraded,
                   search_context, paper_count, messages_for_api,
                   assistant_reply, auto_title, error, manual, titleCalls,
                   searchVars>>

\* faulty variant: the except branch returns an empty keyword
translate_to_english_keyword_empty(user_query, fails) ==
    IF fails THEN {""} ELSE {strip(c) : c \in KeywordCompletions}

\* translate_to_english_keyword: the stripped completion (line 133), or the
\* query itself when the completion raises (lines 134-135)
translate_to_english_keyword(user_query, fails) ==
    IF fails THEN {user_query} ELSE {strip(c) : c \in KeywordCompletions}

\* faulty variant: a failed translation is tried a second time
Translate_retry(f) ==
    /\ pc[f] = "translate"
    /\ \E fails \in BOOLEAN :
          /\ \E kw \in translate_to_english_keyword(prompt[f], fails) :
                english_query' = [english_query EXCEPT ![f] = kw]
          /\ degraded' = [degraded EXCEPT ![f] = fails]
          /\ calls' = [calls EXCEPT ![f] =
                          IF fails THEN @ \o <<"translate", "translate">>
                          ELSE Append(@, "translate")]
    /\ pc' = [pc EXCEPT ![f] = "search"]
    /\ UNCHANGED <<storeVars, now, current_session_id, prompt, current_messages,
                   is_first_message, search_context, paper_count,
                   messages_for_api, assistant_reply, auto_title, error,
                   inserted, manual, titleCalls, searchVars>>

\* lines 279-280
Translate(f) ==
    /\ pc[f] = "translate"
    /\ \E fails \in BOOLEAN :
          /\ \E kw \in translate_to_english_keyword(prompt[f], fails) :
                english_query' = [english_query EXCEPT ![f] = kw]
          /\ degraded' = [degraded EXCEPT ![f] = fails]
    /\ calls' = [calls EXCEPT ![f] = Append(@, "translate")]
    /\ pc' = [pc EXCEPT ![f] = "search"]
    /\ UNCHANGED <<storeVars, now, current_session_id, prompt, current_messages,
                   is_first_message, search_context, paper_count,
                   messages_for_api, assistant_reply, auto_title, error,
                   inserted, manual, titleCalls, searchVars>>

\* faulty variant: the no-results branch is never taken
no_results_never(context) == FALSE

\* line 284: if not search_context
no_results(context) == ~Truthy(context)

\* what search_arxiv(english_query) may return in a turn: the shaped pool
\* (here of up to MaxTurnPool papers of one date), or (None, 0) when the
\* external search raises
TurnSearches ==
    {search_arxiv(p, DefaultMaxResults) :
        p \in {q \in ArxivResults(DefaultMaxResults * OverFetch) :
                  Len(q) <= MaxTurnPool /\ \A i \in 1..Len(q) : q[i] = MaxDate}}
    \cup {<<None, 0>>}

\* faulty variant: a search without results ends the turn with no reply stored
Search_no_reply(f) ==
    /\ pc[f] = "search"
    /\ \E r \in TurnSearches :
          /\ search_context' = [search_context EXCEPT ![f] = r[1]]
          /\ paper_count' = [paper_count EXCEPT ![f] = r[2]]
          /\ pc' = [pc EXCEPT ![f] = IF no_results(r[1]) THEN "done" ELSE "generate"]
    /\ english_query' = [english_query EXCEPT ![f] = ""]
    /\ degraded' = [degraded EXCEPT ![f] = FALSE]
    /\ calls' = [calls EXCEPT ![f] = Append(@, "search")]
    /\ UNCHANGED <<storeVars, now, current_session_id, prompt, current_messages,
                   is_first_message, messages_for_api, assistant_reply,
                   auto_title, error, inserted, manual, titleCalls, searchVars>>

\* lines 282-285
Search(f) ==
    /\ pc[f] = "search"
    /\ \E r \in TurnSearches :
          /\ search_context' = [search_context EXCEPT ![f] = r[1]]
          /\ paper_count' = [paper_count EXCEPT ![f] = r[2]]
          /\ IF no_results(r[1])
             THEN /\ assistant_reply' = [assistant_reply EXCEPT ![f] = NoResultsReply]
                  /\ pc' = [pc EXCEPT ![f] = "save_assistant"]
             ELSE /\ pc' = [pc EXCEPT ![f] = "generate"]
                  /\ UNCHANGED assistant_reply
    /\ english_query' = [english_query EXCEPT ![f] = ""]   \* not read again
    /\ degraded' = [degraded EXCEPT ![f] = FALSE]
    /\ calls' = [calls EXCEPT ![f] = Append(@, "search")]
    /\ UNCHANGED <<storeVars, now, current_session_id, prompt, current_messages,
                   is_first_message, messages_for_api,
                   auto_title, error, inserted, manual, titleCalls, searchVars>>

\* lines 287-303: the composed prompt, an f-string over the question, the
\* paper count and the search data
full_prompt(p, count, context) ==
    "question: '" \o p \o "' papers found (" \o ToString(count) \o "): "
        \o ToString(context.blocks)

\* every text full_prompt can compose in a turn
ComposedPrompts == {full_prompt(p, r[2], r[1]) : p \in Prompts, r \in TurnSearches}

\* faulty variant: the stored history is left out of the request
build_messages_for_api_no_history(history, composed) ==
    <<[role |-> "system", content |-> SystemPrompt],
      [role |-> "user", content |-> composed]>>

\* lines 304-306
build_messages_for_api(history, composed) ==
    <<[role |-> "system", content |-> SystemPrompt]>> \o history
        \o <<[role |-> "user", content |-> composed]>>

\* faulty variant: a failed completion is swallowed and the turn goes on
Generate_swallow(f) ==
    /\ pc[f] = "generate"
    /\ messages_for_api' =
          [messages_for_api EXCEPT ![f] =
              build_messages_for_api(current_messages[f],
                  full_prompt(prompt[f], paper_count[f], search_context[f]))]
    /\ calls' = [calls EXCEPT ![f] = Append(@, "generate")]
    /\ \/ \E r \in ReplyCompletions :
             /\ assistant_reply' = [assistant_reply EXCEPT ![f] = r]
             /\ UNCHANGED error
       \/ /\ error' = [error EXCEPT ![f] = TRUE]
          /\ UNCHANGED assistant_reply
    /\ pc' = [pc EXCEPT ![f] = "save_assistant"]
    /\ UNCHANGED <<storeVars, now, current_session_id, prompt, current_messages,
                   is_first_message, english_query, degraded, search_context, paper_count,
                   auto_title, inserted, manual, titleCalls, searchVars>>

\* lines 287-312 and the except branch of 324-325
Generate(f) ==
    /\ pc[f] = "generate"
    /\ messages_for_api' =
          [messages_for_api EXCEPT ![f] =
              build_messages_for_api(current_messages[f],
                  full_prompt(prompt[f], paper_count[f], search_context[f]))]
    /\ calls' = [calls EXCEPT ![f] = Append(@, "generate")]
    /\ \/ \E r \in ReplyCompletions :
             /\ assistant_reply' = [assistant_reply EXCEPT ![f] = r]
             /\ pc' = [pc EXCEPT ![f] = "save_assistant"]
             /\ UNCHANGED error
       \/ /\ error' = [error EXCEPT ![f] = TRUE]
          /\ pc' = [pc EXCEPT ![f] = "done"]
          /\ UNCHANGED assistant_reply
    /\ UNCHANGED <<storeVars, now, current_session_id, prompt, current_messages,
                   is_first_message, english_query, degraded, search_context, paper_count,
                   auto_title, inserted, manual, titleCalls, searchVars>>

\* lines 314-319
SaveAssistant(f) ==
    /\ pc[f] = "save_assistant"
    /\ seq < MaxMsgs
    /\ messages' = save_message(current_session_id[f], "assistant", assistant_reply[f])
    /\ seq' = seq + 1
    /\ appended' = [appended EXCEPT ![current_session_id[f]] =
                       Append(@, [role |-> "assistant", content |-> assistant_reply[f]])]
    /\ inserted' = [inserted EXCEPT ![f] = Append(@, seq + 1)]
    /\ calls' = [calls EXCEPT ![f] = Append(@, "save_assistant")]
    /\ pc' = [pc EXCEPT ![f] = IF is_first_message[f] THEN "title" ELSE "done"]
    /\ messages_for_api' = [messages_for_api EXCEPT ![f] = NoRequest]  \* answered
    /\ UNCHANGED <<sessions, uuids, txn, now, current_session_id, prompt,
                   current_messages, is_first_message, english_query, degraded,
                   search_context, paper_count,
                   assistant_reply, auto_title, error, manual, titleCalls,
                   searchVars>>

\* generate_auto_title: the stripped completion, or the default title when
\* the completion raises
generate_auto_title(user_query) ==
    {strip(c) : c \in TitleCompletions} \cup {DefaultTitle}

\* line 320
AutoTitle(f) ==
    /\ pc[f] = "title"
    /\ \E t \in generate_auto_title(prompt[f]) :
          auto_title' = [auto_title EXCEPT ![f] = t]
    /\ titleCalls' = [titleCalls EXCEPT ![current_session_id[f]] = @ + 1]
    /\ calls' = [calls EXCEPT ![f] = Append(@, "generate_auto_title")]
    /\ pc' = [pc EXCEPT ![f] = "update_title"]
    /\ UNCHANGED <<storeVars, now, current_session_id, prompt, current_messages,
                   is_first_message, english_query, degraded, search_context, paper_count,
                   messages_for_api, assistant_reply, error, inserted, manual,
                   searchVars>>

\* line 321
UpdateTitle(f) ==
    /\ pc[f] = "update_title"
    /\ sessions' = update_session_title(current_session_id[f], auto_title[f])
    /\ calls' = [calls EXCEPT ![f] = Append(@, "update_session_title")]
    /\ pc' = [pc EXCEPT ![f] = "done"]
    /\ UNCHANGED <<messages, seq, uuids, txn, appended, now, current_session_id,
                   prompt, current_messages, is_first_message, english_query, degraded,
                   search_context, paper_count, messages_for_api,
                   assistant_reply, auto_title, error, inserted, manual,
                   titleCalls, searchVars>>

\* line 322 (st.rerun) or the end of the script: the run is over and its
\* locals are gone
Finish(f) ==
    /\ pc[f] = "done"
    /\ pc' = [pc EXCEPT ![f] = "idle"]
    /\ prompt' = [prompt EXCEPT ![f] = ""]
    /\ current_messages' = [current_messages EXCEPT ![f] = <<>>]
    /\ is_first_message' = [is_first_message EXCEPT ![f] = FALSE]
    /\ english_query' = [english_query EXCEPT ![f] = ""]
    /\ degraded' = [degraded EXCEPT ![f] = FALSE]
    /\ search_context' = [search_context EXCEPT ![f] = None]
    /\ paper_count' = [paper_count EXCEPT ![f] = 0]
    /\ messages_for_api' = [messages_for_api EXCEPT ![f] = NoRequest]
    /\ assistant_reply' = [assistant_reply EXCEPT ![f] = NoReply]
    /\ auto_title' = [auto_title EXCEPT ![f] = ""]
    /\ error' = [error EXCEPT ![f] = FALSE]
    /\ calls' = [calls EXCEPT ![f] = <<>>]
    /\ inserted' = [inserted EXCEPT ![f] = <<>>]
    /\ manual' = [manual EXCEPT ![f] = ""]
    /\ UNCHANGED <<storeVars, now, current_session_id, titleCalls, searchVars>>

\* ---- specifications ------------------------------------------------------
FlowStep(f) ==
    \/ NewChat(f)
    \/ \E s \in Uuids, t \in NewNames : Rename(f, s, t)
    \/ \E s \in Uuids : Open(f, s)
    \/ \E kw \in Keywords, s \in Uuids : SearchOpen(f, kw, s)
    \/ \E s \in Uuids : Delete(f, s)
    \/ Reload(f)
    \/ Select(f)
    \/ Create(f)
    \/ \E p \in Prompts : Submit(f, p)
    \/ SaveUser(f)
    \/ Translate(f)
    \/ Search(f)
    \/ Generate(f)
    \/ SaveAssistant(f)
    \/ AutoTitle(f)
    \/ UpdateTitle(f)
    \/ Finish(f)

\* several browser tabs on the one database
Next == Tick \/ \E f \in Flows : FlowStep(f)
Spec == Init /\ [][Next]_vars

\* one browser tab: no two turns overlap.  The clock stands still here, which
\* loses nothing: timestamps only steer Select, and with every session created
\* in the same minute Select may pick any of them.
NextOne == FlowStep(1)
SpecOne == Init /\ [][NextOne]_vars

\* ---- the store functions on their own -------------------------------------
Roles == {"user", "assistant"}
Contents == Prompts

\* create_session(title); a writer waits while another connection's
\* transaction holds the database
StoreCreate ==
    /\ txn.statements = 0
    /\ uuids < MaxSessions
    /\ sessions' = create_session(DefaultTitle)
    /\ uuids' = uuids + 1
    /\ UNCHANGED <<messages, seq, txn, appended, now, current_session_id, pc,
                   turnVars, titleCalls, searchVars>>

\* save_message(session_id, role, content), for any session id at all
StoreAppend(s, role, content) ==
    /\ txn.statements = 0
    /\ seq < MaxMsgs
    /\ messages' = save_message(s, role, content)
    /\ seq' = seq + 1
    /\ appended' = [appended EXCEPT ![s] = Append(@, [role |-> role, content |-> content])]
    /\ UNCHANGED <<sessions, uuids, txn, now, current_session_id, pc, turnVars,
                   titleCalls, searchVars>>

\* delete_session(session_id)
StoreDelete(s) ==
    /\ txn.statements = 0
    /\ messages' = delete_session_messages(s)
    /\ sessions' = delete_session_sessions(s)
    /\ appended' = [appended EXCEPT ![s] = <<>>]
    /\ UNCHANGED <<seq, uuids, txn, now, current_session_id, pc, turnVars,
                   titleCalls, searchVars>>

StoreNext ==
    \/ Tick
    \/ StoreCreate
    \/ \E s \in Uuids, role \in Roles, content \in Contents : StoreAppend(s, role, content)
    \/ \E s \in Uuids : StoreDelete(s)
StoreSpec == Init /\ [][StoreNext]_vars

\* ---- delete_session statement by statement --------------------------------
\* sqlite3 opens a transaction before the first DELETE; what the statements
\* remove becomes part of the database at conn.commit() (line 72) and not
\* before.  A connection dropped before the commit rolls the transaction back.

\* faulty variant: every statement commits on its own
DeleteExecMessages_autocommit(s) ==
    /\ txn.statements = 0
    /\ txn' = [session_id |-> s, statements |-> 1]
    /\ messages' = delete_session_messages(s)
    /\ UNCHANGED <<sessions, seq, uuids, appended, now, current_session_id, pc,
                   turnVars, titleCalls, searchVars>>

\* line 70: DELETE FROM messages WHERE session_id = ?
DeleteExecMessages(s) ==
    /\ txn.statements = 0
    /\ txn' = [session_id |-> s, statements |-> 1]
    /\ UNCHANGED <<sessions, messages, seq, uuids, appended, now,
                   current_session_id, pc, turnVars, titleCalls, searchVars>>

\* line 71: DELETE FROM sessions WHERE id = ?
DeleteExecSession ==
    /\ txn.statements = 1
    /\ txn' = [txn EXCEPT !.statements = 2]
    /\ UNCHANGED <<sessions, messages, seq, uuids, appended, now,
                   current_session_id, pc, turnVars, titleCalls, searchVars>>

\* line 72: conn.commit()
DeleteCommit ==
    /\ txn.statements = 2
    /\ messages' = delete_session_messages(txn.session_id)
    /\ sessions' = delete_session_sessions(txn.session_id)
    /\ appended' = [appended EXCEPT ![txn.session_id] = <<>>]
    /\ txn' = NoTxn
    /\ UNCHANGED <<seq, uuids, now, current_session_id, pc, turnVars,
                   titleCalls, searchVars>>

\* a statement raises or the process is stopped before line 72: the
\* connection goes away uncommitted.  txn keeps the id of the dropped call.
DeleteInterrupted ==
    /\ txn.statements > 0
    /\ txn' = [txn EXCEPT !.statements = 0]
    /\ UNCHANGED <<sessions, messages, seq, uuids, appended, now,
                   current_session_id, pc, turnVars, titleCalls, searchVars>>

DeleteNext ==
    \/ StoreCreate
    \/ \E s \in Uuids, role \in Roles, content \in Contents : StoreAppend(s, role, content)
    \/ \E s \in Uuids : DeleteExecMessages(s)
    \/ DeleteExecSession
    \/ DeleteCommit
    \/ DeleteInterrupted
DeleteSpec == Init /\ [][DeleteNext]_vars

\* ---- search_arxiv on its own ---------------------------------------------
\* a call search_arxiv(query, max_results): the external search either
\* answers with a pool within the requested limit or raises
SearchInit ==
    /\ FlowsInit
    /\ max_results \in 0..MaxResults
    /\ raised \in BOOLEAN
    /\ pool \in IF raised THEN {<<>>} ELSE ArxivResults(max_results * OverFetch)
    /\ returned = NotReturned
    /\ attempts = 0

\* faulty variant: no except branch, the exception leaves search_arxiv
SearchCall_unhandled ==
    /\ returned = NotReturned
    /\ attempts' = attempts + 1
    /\ returned' = IF raised THEN Propagated ELSE search_arxiv(pool, max_results)
    /\ UNCHANGED <<storeVars, now, current_session_id, pc, turnVars, titleCalls,
                   max_results, pool, raised>>

\* lines 151-185: the try body with its one client.results call (line 160),
\* or the except branch (lines 183-185)
SearchCall ==
    /\ returned = NotReturned
    /\ attempts' = attempts + 1
    /\ returned' = IF raised THEN <<None, 0>> ELSE search_arxiv(pool, max_results)
    /\ UNCHANGED <<storeVars, now, current_session_id, pc, turnVars, titleCalls,
                   max_results, pool, raised>>

SearchSpec == SearchInit /\ [][SearchCall]_vars

\* ---- properties ----------------------------------------------------------
Called(f, c) == \E i \in 1..Len(calls[f]) : calls[f][i] = c
Title(s) == SessionRow(s).title
Quiescent(s) ==
    \A f \in Flows : current_session_id[f] = s => pc[f] \in {"idle", "select", "create"}

\* C1: in every turn the user message is stored before any external call is
\* made (it is the first call of the turn), and whatever the later steps of the
\* turn do, that row is in the message list of the session for as long as the
\* session itself has not been deleted.
C1_UserMessageFirst ==
    \A f \in Flows :
        calls[f] # <<>> =>
            /\ calls[f][1] = "save_user"
            /\ Len(inserted[f]) >= 1
            /\ current_session_id[f] \in SessionIds =>
                  \E i \in 1..Len(get_message_rows(current_session_id[f])) :
                      LET m == get_message_rows(current_session_id[f])[i]
                      IN /\ m.id = inserted[f][1]
                         /\ m.role = "user"
                         /\ m.content = prompt[f]
C1_Witness ==
    \E f \in Flows :
        /\ pc[f] = "done"
        /\ error[f]
        /\ Called(f, "generate")
        /\ \E m \in messages :
              /\ m.id = inserted[f][1]
              /\ m.session_id = current_session_id[f]
              /\ m.role = "user"

\* C2: when the generation raises on the first turn of a session, the
\* session's message list is after the turn exactly the one user message,
\* the title generator and the title update were not called, and the title
\* is the placeholder (or what the user typed for it), not a generated one.
C2_GenerationFailsOnFirstTurn ==
    \A f \in Flows :
        (pc[f] = "done" /\ error[f] /\ is_first_message[f]) =>
            /\ current_session_id[f] \in SessionIds
            /\ get_messages(current_session_id[f])
                  = <<[role |-> "user", content |-> prompt[f]]>>
            /\ ~Called(f, "save_assistant")
            /\ ~Called(f, "generate_auto_title")
            /\ ~Called(f, "update_session_title")
            /\ titleCalls[current_session_id[f]] = 0
            /\ Title(current_session_id[f]) \in {DefaultTitle} \cup NewNames
C2_Witness ==
    \E f \in Flows :
        /\ pc[f] = "done" /\ error[f] /\ is_first_message[f]
        /\ Len(get_messages(current_session_id[f])) = 1
        /\ Title(current_session_id[f]) = DefaultTitle

\* C3: in a turn whose search returned zero records the generation is never
\* called, the reply is the fixed no-results string, and the assistant row
\* the turn stores holds that string.
C3_NoResultsSkipsGeneration ==
    \A f \in Flows :
        (Called(f, "search") /\ paper_count[f] = 0) =>
            /\ ~Called(f, "generate")
            /\ messages_for_api[f] = NoRequest
            /\ assistant_reply[f] = NoResultsReply
            /\ Len(inserted[f]) = 2 =>
                  \A m \in messages :
                      m.id = inserted[f][2] =>
                          m.role = "assistant" /\ m.content = NoResultsReply
C3_Witness ==
    \E f \in Flows :
        /\ pc[f] = "done"
        /\ Called(f, "search") /\ paper_count[f] = 0
        /\ Len(inserted[f]) = 2
        /\ \E m \in messages :
              m.id = inserted[f][2] /\ m.content = NoResultsReply

\* C4: for every session id, get_messages returns the messages appended to it
\* (since its last delete_session) in the order of the save_message calls, also when
\* appends to other sessions fall in between and timestamps collide.
C4_MessagesInCallOrder ==
    \A s \in Uuids : get_messages(s) = appended[s]
C4_Witness ==
    \E a, b, c \in messages :
        /\ a.id < b.id /\ b.id < c.id
        /\ a.session_id = c.session_id /\ b.session_id # a.session_id
        /\ a.created_at = c.created_at
        /\ Len(get_messages(a.session_id)) = 2

\* C5: right after delete_session(S), get_messages(S) is empty and
\* get_session_info(S) is the not-found pair, whatever happened before.
C5_DeleteLeavesNothing ==
    [][\A s \in Uuids :
          (StoreDelete(s) \/ \E f \in Flows : Delete(f, s)) =>
              /\ get_messages(s)' = <<>>
              /\ get_session_info(s)' = NotFound]_vars
C5_Witness ==
    \E s \in Uuids :
        /\ s <= uuids /\ s \notin SessionIds
        /\ seq > 0 /\ messages = {}
        /\ get_session_info(s) = NotFound

\* C6: save_message inserts a row only when its session exists (a missing
\* session makes it fail and leave the messages relation unchanged).
C6_ForeignKeyEnforced ==
    [][\A m \in messages' \ messages : m.session_id \in SessionIds]_vars

\* C7: every stored message belongs to an existing session.
C7_NoOrphanMessages ==
    \A m \in messages : m.session_id \in SessionIds

\* C8 (as claimed): a session with no turn running has had the title
\* generator called exactly once if a turn has stored an assistant message
\* for it, and not at all otherwise.
C8_TitleAfterFirstCompletedTurn ==
    \A s \in SessionIds :
        Quiescent(s) =>
            titleCalls[s] =
                IF \E m \in messages : m.session_id = s /\ m.role = "assistant"
                THEN 1 ELSE 0

\* C8 (amended): with the turns of a session processed one at a time, the
\* title generator is called at most once per session, and only in the turn
\* that found the message list empty, after that turn stored its assistant
\* message; a session whose first turn aborted is never titled.
C8_TitleOnFirstTurnOnly ==
    /\ \A f \in Flows :
          Called(f, "generate_auto_title") =>
              /\ current_messages[f] = <<>>
              /\ Called(f, "save_assistant")
    /\ \A s \in SessionIds :
          /\ titleCalls[s] <= 1
          /\ Quiescent(s) =>
                (titleCalls[s] = 1 <=>
                    /\ Len(get_messages(s)) >= 2
                    /\ get_messages(s)[2].role = "assistant")
C8_Witness ==
    \E s \in SessionIds :
        /\ Quiescent(s)
        /\ titleCalls[s] = 0
        /\ Len(get_messages(s)) = 3
        /\ get_messages(s)[3].role = "assistant"

\* C9: a title saved by another flow while the first turn of the session is
\* running is the title of the session when that turn is over.
C9_RenameSurvivesFirstTurn ==
    \A f \in Flows :
        (pc[f] = "done" /\ manual[f] # "" /\ current_session_id[f] \in SessionIds) =>
            Title(current_session_id[f]) = manual[f]

\* C10: search_arxiv(q, n) returns at most n records and a count equal to
\* their number; when the pool has at least n items it returns exactly n; the
\* records are distinct pool entries in descending order of publication date.
C10_SearchCountAndOrder ==
    LET blocks == returned[1].blocks
    IN returned # NotReturned =>
       /\ Len(blocks) <= max_results
       /\ returned[2] = Len(blocks)
       /\ (~raised /\ Len(pool) >= max_results) => Len(blocks) = max_results
       /\ \A i, j \in 1..Len(blocks) :
             i < j => /\ blocks[i].entry_id # blocks[j].entry_id
                      /\ pool[blocks[i].entry_id] >= pool[blocks[j].entry_id]
                      /\ blocks[i].published_year >= blocks[j].published_year
       /\ \A i \in 1..Len(blocks) :
             /\ blocks[i].entry_id \in 1..Len(pool)
             /\ blocks[i].published_year = Year(pool[blocks[i].entry_id])
C10_Witness ==
    /\ returned # NotReturned
    /\ ~raised
    /\ max_results >= 2
    /\ Len(pool) > max_results
    /\ \E i, j \in 1..Len(pool) : i < j /\ pool[i] < pool[j]
    /\ Len(returned[1].blocks) = max_results
    /\ returned[1].blocks[1].entry_id # 1

\* C11: search_arxiv never lets an error out: when the external search
\* yields no candidate and when it raises, the call returns (None, 0); the
\* external search is attempted once, never again.
C11_SearchNeverPropagates ==
    /\ attempts <= 1
    /\ returned # NotReturned =>
          /\ attempts = 1
          /\ returned # Propagated
          /\ (raised \/ Len(pool) = 0) => returned = <<None, 0>>

C11_Witness == raised /\ attempts = 1 /\ returned = <<None, 0>>

\* C12: the composed prompt is never stored.  Every stored user message holds
\* the text the user submitted (the first row a running turn inserted holds
\* that turn's chat input), every stored assistant message holds a completion
\* reply or the fixed no-results text, and no stored content is a composed
\* prompt.
C12_ComposedPromptNeverStored ==
    /\ \A m \in messages :
          /\ m.content \notin ComposedPrompts
          /\ m.role = "user" => m.content \in Prompts
          /\ m.role = "assistant" => m.content \in ReplyCompletions \cup {NoResultsReply}
    /\ \A f \in Flows : \A m \in messages :
          (inserted[f] # <<>> /\ m.id = inserted[f][1]) =>
             m.role = "user" /\ m.content = prompt[f]

C12_Witness ==
    \E f \in Flows :
       /\ Called(f, "generate")
       /\ Len(inserted[f]) = 2
       /\ \E m \in messages : m.id = inserted[f][2] /\ m.content \in ReplyCompletions
       /\ \E m \in messages : m.id = inserted[f][1] /\ m.content = prompt[f]

\* C13: the request sent to the completion is one system instruction, then
\* the messages the session held before this turn in ascending id order, then
\* the composed prompt as the last user message; the turn's own chat input,
\* stored by then, is no entry of its own.
C13_RequestShape ==
    \A f \in Flows :
       messages_for_api[f] # NoRequest =>
          LET req == messages_for_api[f]
              stored == get_messages(current_session_id[f])
              before == SubSeq(stored, 1, Len(stored) - 1)
          IN /\ Len(stored) >= 1
             /\ stored[Len(stored)] = [role |-> "user", content |-> prompt[f]]
             /\ Len(req) = Len(before) + 2
             /\ req[1] = [role |-> "system", content |-> SystemPrompt]
             /\ \A i \in 2..Len(req) : req[i].role # "system"
             /\ SubSeq(req, 2, Len(req) - 1) = before
             /\ req[Len(req)] =
                   [role |-> "user",
                    content |-> full_prompt(prompt[f], paper_count[f], search_context[f])]
             /\ req[Len(req)].content # prompt[f]

C13_Witness ==
    \E f \in Flows :
       /\ messages_for_api[f] # NoRequest
       /\ Len(messages_for_api[f]) = 4
       /\ messages_for_api[f][2].role = "user"
       /\ messages_for_api[f][3].role = "assistant"

Count(f, c) == Cardinality({i \in 1..Len(calls[f]) : calls[f][i] = c})
Before(f, c, d) ==
    \A j \in 1..Len(calls[f]) :
       calls[f][j] = d => \E i \in 1..(j - 1) : calls[f][i] = c

\* C14: a turn calls translation and search once each and generation at most
\* once, in the order translate, search, generate, with no retry: a finished
\* run has made exactly one translate and one search call, and no generate
\* call when the search gave nothing.
C14_OnceEachInOrder ==
    \A f \in Flows :
       /\ Count(f, "translate") <= 1
       /\ Count(f, "search") <= 1
       /\ Count(f, "generate") <= 1
       /\ Before(f, "translate", "search")
       /\ Before(f, "search", "generate")
       /\ pc[f] = "done" => Count(f, "translate") = 1 /\ Count(f, "search") = 1
       /\ (Called(f, "search") /\ no_results(search_context[f])) =>
             Count(f, "generate") = 0

C14_Witness ==
    \E f \in Flows :
       /\ pc[f] = "done"
       /\ error[f]
       /\ Count(f, "translate") = 1
       /\ Count(f, "search") = 1
       /\ Count(f, "generate") = 1

\* C18: when the translation completion fails, translate_to_english_keyword
\* returns the user's query unchanged, and the turn goes on to the search with
\* it: the translation step never ends the turn and never sets the error.
C18_TranslationFallback ==
    [][\A f \in Flows :
          (pc[f] = "translate" /\ pc'[f] # "translate") =>
             /\ pc'[f] = "search"
             /\ ~error'[f]
             /\ prompt'[f] = prompt[f]
             /\ degraded'[f] => english_query'[f] = prompt[f]]_vars

C18_Witness ==
    \E f \in Flows :
       pc[f] = "search" /\ degraded[f] /\ english_query[f] = prompt[f]

\* C15: delete_session is atomic.  No step removes a message of a session
\* without removing all of them together with the session row, or the row
\* without the messages; and a call that fails or is stopped between the two
\* DELETE statements leaves both relations as they were.
C15_DeleteAtomic ==
    [][/\ \A s \in Uuids :
             ((\E m \in messages \ messages' : m.session_id = s)
                 \/ (s \in SessionIds /\ s \notin SessionIds')) =>
                /\ s \notin SessionIds'
                /\ \A m \in messages' : m.session_id # s
       /\ (txn.statements = 1 /\ txn'.statements = 0) =>
             UNCHANGED <<sessions, messages>>]_vars

C15_Witness ==
    /\ txn.statements = 0
    /\ txn.session_id \in SessionIds
    /\ get_messages(txn.session_id) # <<>>
    /\ get_messages(txn.session_id) = appended[txn.session_id]

\* C16: get_all_sessions lists the sessions newest first: of any two
\* sessions the one created later comes before the one created earlier, also
\* when both were created within one minute.  (Ids are handed out in creation
\* order, so the greater id is the later session.)
C16_ListedNewestFirst ==
    \A l \in get_all_sessions :
       \A i, j \in 1..Len(l) : l[i].id > l[j].id => i < j

\* the keyword occurs in the text, letters compared as LIKE compares them
\* (the case policy is the implementation's)
ContainsLiteral(text, keyword) ==
    \E i \in 1..(Len(text) - Len(keyword) + 1) :
       \A k \in 1..Len(keyword) :
          Lower(Char(text, i + k - 1)) = Lower(Char(keyword, k))

\* C17: for every keyword, every entry search_history returns has a content
\* that contains the keyword as a literal substring, and no two entries have
\* the same session id and content, also when the same content was stored
\* several times in a session.
C17_SearchHistoryLiteralDistinct ==
    \A keyword \in Keywords : \A l \in search_history(keyword) :
       /\ \A i \in 1..Len(l) : ContainsLiteral(l[i][3], keyword)
       /\ \A i, j \in 1..Len(l) :
             i # j => <<l[i][1], l[i][3]>> # <<l[j][1], l[j][3]>>

\* C19: with no session selected the main flow selects the most recent
\* existing session (the one created last), and creates one only when the
\* store holds none; so whenever a turn can be submitted the flow's
\* current_session_id is the id of an existing session.
C19_SelectsMostRecentExisting ==
    [][\A f \in Flows :
          /\ (pc[f] = "select" /\ pc'[f] = "idle") =>
                /\ current_session_id'[f] \in SessionIds
                /\ \A s \in SessionIds : s <= current_session_id'[f]
          /\ (pc[f] = "select" /\ pc'[f] = "create") => sessions = {}
          /\ pc'[f] = "idle" => current_session_id'[f] \in SessionIds']_vars

\* the roles of the rows the running turn has inserted, in insertion order
InsertedRoles(f) ==
    [i \in 1..Len(inserted[f]) |->
        (CHOOSE m \in messages : m.id = inserted[f][i]).role]

\* C20: with turns handled one at a time, a session's message list holds
\* only the roles user and assistant, every assistant message comes directly
\* after a user message, and a finished turn has appended to the list either
\* a user message and an assistant message or a user message alone, the
\* latter only when the turn was aborted.
C20_MessageListShape ==
    /\ \A s \in Uuids :
          LET ms == get_messages(s)
          IN \A i \in 1..Len(ms) :
                /\ ms[i].role \in {"user", "assistant"}
                /\ ms[i].role = "assistant" => i > 1 /\ ms[i - 1].role = "user"
    /\ \A f \in Flows :
          pc[f] = "done" =>
             LET stored == get_messages(current_session_id[f])
                 old == Len(stored) - Len(inserted[f])
             IN /\ old >= 0
                /\ SubSeq(stored, 1, old) = current_messages[f]
                /\ \A i \in 1..Len(inserted[f]) :
                      stored[old + i].role = InsertedRoles(f)[i]
                /\ \/ InsertedRoles(f) = <<"user", "assistant">>
                   \/ InsertedRoles(f) = <<"user">> /\ error[f]

C20_Witness ==
    \E f \in Flows :
       /\ pc[f] = "done"
       /\ error[f]
       /\ InsertedRoles(f) = <<"user">>
       /\ Len(get_messages(current_session_id[f])) = 3
       /\ get_messages(current_session_id[f])[2].role = "assistant"

====
